---- MODULE Spec2Model ----
(***************************************************************************)
(* Model of the daily quiz bot of main.py: the characters and game_status  *)
(* tables, the selection of the character of the day                       *)
(* (select_new_character), the /start handler (start_command), the button  *)
(* handler (button_callback_handler) and the seeding of the catalog        *)
(* (init_db).                                                              *)
(*                                                                         *)
(* Two specifications:                                                     *)
(*   Spec      every handler runs to completion before the next one starts *)
(*             (one event loop: the handlers never await between their     *)
(*             first query and their commit).                              *)
(*   SpecConc  several server workers share the database file; each runs   *)
(*             select_new_character query by query, and the database       *)
(*             serialises only the write transaction.                      *)
(***************************************************************************)
EXTENDS Integers, Sequences, FiniteSets, TLC

\* ------------------------------------------------------------- bounds
\* Dates are day numbers 1..MaxDate (date.today() only moves forward).
MaxDate == 7
\* SpecConc: how many /start events the workers take up in all.
MaxStarts == 4
\* How many quiz prompts can be open (sent and not yet answered) at a time.
MaxOpen == 2

\* ---------------------------------------------------------- constants
\* A NULL last_proposed_date (Column(Date, nullable=True)).
NULL == 0
\* select_new_character's None, and .first() on an empty result.
NoChar == 0

\* The seed of the catalog, in insertion order.
INITIAL_CHARACTERS ==
  << [name |-> "Leonardo da Vinci",       category |-> "GENIUS"],
     [name |-> "Giuseppe Garibaldi",      category |-> "MASON"],
     [name |-> "Wolfgang Amadeus Mozart", category |-> "BOTH"],
     [name |-> "Una Persona Qualunque",   category |-> "COMMON"],
     [name |-> "Galileo Galilei",         category |-> "GENIUS"],
     [name |-> "Lord Byron",              category |-> "MASON"] >>

\* callback_data of the four buttons of the quiz keyboard.
ButtonKeys == {"GENIUS", "MASON", "BOTH", "COMMON"}

\* What a callback query can carry as query.data: the four buttons of this
\* keyboard, and the data of buttons that other keyboards left in a chat
\* (legacy spellings, other casing, padding, an unknown key).
CallbackData ==
  ButtonKeys \cup {"genius", " GENIUS ", "GENIO", "PERSONA COMUNE", "UNKNOWN"}

\* The server workers that share the database file.
Workers == {"w1", "w2"}

VARIABLES
  characters,   \* table characters: sequence of rows in rowid order
  game_status,  \* table game_status: set of rows
  today,        \* date.today()
  out,          \* what the last handler did and sent
  prompt,       \* the last quiz prompt sent by start_command
  keyboards,    \* open quiz prompts: how many show each character
  pc,           \* SpecConc: where each worker is in select_new_character
  w_today,      \* SpecConc: the worker's local today
  w_char,       \* SpecConc: the worker's char_to_propose
  w_ret,        \* SpecConc: what the worker's last call returned
  starts        \* SpecConc: the /start events taken up so far

vars == <<characters, game_status, today, out, prompt, keyboards, pc, w_today, w_char, w_ret, starts>>
wvars == <<pc, w_today, w_char, w_ret, starts>>

\* The ids init_db gives the characters.
CharIds == 1..Len(INITIAL_CHARACTERS)

\* ------------------------------------------------------------ queries

\* session.query(GameStatus).filter(GameStatus.game_date == today)
TodayStatusNever(gs, d) == {}
TodayStatusStale(gs, d) == {r \in gs : r.game_date <= d}
TodayStatus(gs, d) == {r \in gs : r.game_date = d}

\* ....first(): the row with the lowest rowid, or nothing.
NoRow == [id |-> 0, current_char_id |-> NoChar, game_date |-> NULL]
FirstStatus(gs, d) ==
  LET rows == TodayStatus(gs, d) IN
  IF rows = {} THEN NoRow
  ELSE CHOOSE r \in rows : \A r2 \in rows : r.id <= r2.id

\* session.query(Character).filter(Character.id == id).first(): the id, or
\* NoChar when no row has it.
CharById(chars, id) ==
  IF \E i \in 1..Len(chars) : chars[i].id = id THEN id ELSE NoChar

\* The row of a character id.
Row(chars, id) == chars[CHOOSE i \in 1..Len(chars) : chars[i].id = id]

\* ORDER BY last_proposed_date ASC as SQLite sorts it: NULL sorts before
\* every date.
DateBeforeNullsLast(a, b) ==
  IF a = NULL THEN FALSE ELSE (b = NULL \/ a < b)
DateBefore(a, b) ==
  IF a = NULL THEN b # NULL ELSE (b # NULL /\ a < b)

\* session.query(Character).order_by(last_proposed_date.asc()).first():
\* the first row of the sorted scan. SQLite sorts a LIMIT 1 query in a
\* temporary b-tree keyed by (sort key, scan sequence), and the scan runs in
\* rowid order, so rows with equal dates come out in rowid order.
LeastRecentLastTie(chars) ==
  IF Len(chars) = 0 THEN NoChar
  ELSE chars[CHOOSE i \in 1..Len(chars) :
               \A j \in (1..Len(chars)) \ {i} :
                  \/ DateBefore(chars[i].last_proposed_date, chars[j].last_proposed_date)
                  \/ /\ chars[i].last_proposed_date = chars[j].last_proposed_date
                     /\ i > j].id
LeastRecentDesc(chars) ==
  IF Len(chars) = 0 THEN NoChar
  ELSE chars[CHOOSE i \in 1..Len(chars) :
               \A j \in (1..Len(chars)) \ {i} :
                  \/ DateBefore(chars[j].last_proposed_date, chars[i].last_proposed_date)
                  \/ /\ chars[i].last_proposed_date = chars[j].last_proposed_date
                     /\ i < j].id
LeastRecent(chars) ==
  IF Len(chars) = 0 THEN NoChar
  ELSE chars[CHOOSE i \in 1..Len(chars) :
               \A j \in (1..Len(chars)) \ {i} :
                  \/ DateBefore(chars[i].last_proposed_date, chars[j].last_proposed_date)
                  \/ /\ chars[i].last_proposed_date = chars[j].last_proposed_date
                     /\ i < j].id

\* ------------------------------------------------------------- writes

\* char_to_propose.last_proposed_date = today, flushed by the commit.
SetProposedLost(chars, id, d) == chars
SetProposed(chars, id, d) ==
  [i \in 1..Len(chars) |->
     IF chars[i].id = id THEN [chars[i] EXCEPT !.last_proposed_date = d]
     ELSE chars[i]]

\* The rowid SQLite gives a new row: one more than the largest in the table.
NextStatusId(gs) ==
  IF gs = {} THEN 1
  ELSE 1 + (CHOOSE m \in {r.id : r \in gs} : \A r \in gs : r.id <= m)

\* session.query(GameStatus).delete(), then
\* session.add(GameStatus(current_char_id=..., game_date=today)).
RecordSelectionNoDelete(gs, id, d) ==
  gs \cup {[id |-> NextStatusId(gs), current_char_id |-> id, game_date |-> d]}
RecordSelection(gs, id, d) ==
  LET kept == {} IN
  kept \cup {[id |-> NextStatusId(kept), current_char_id |-> id, game_date |-> d]}

\* ------------------------------------------------------------ replies

\* start_command's branch on the returned character.
StartReplyUnchecked(c) == IF c # NoChar THEN "prompt" ELSE "crash"
StartReply(c) == IF c # NoChar THEN "prompt" ELSE "no_character"

\* button_callback_handler's finally: session.close(), with nothing added and
\* no commit: the table stays as it was read.
CloseSessionCleared(gs) == {}
CloseSession(gs) == gs

\* The verdict of button_callback_handler: user_guess == correct_answer.
Verdict(user_guess, correct_answer) ==
  IF user_guess = correct_answer THEN "correct" ELSE "wrong"

NoOut == [event |-> "none", path |-> "", reply |-> "", char |-> NoChar,
          name |-> "", guess |-> "", answer |-> "", shown |-> NoChar]

\* The messages that carry the quiz keyboard. chat_id is read and never used,
\* so the prompts of all conversations are one pool, told apart by the
\* character they show.
RECURSIVE OpenUpTo(_, _)
OpenUpTo(kb, n) == IF n = 0 THEN 0 ELSE kb[n] + OpenUpTo(kb, n - 1)
OpenCount(kb) == OpenUpTo(kb, Len(INITIAL_CHARACTERS))

\* update.message.reply_text(message, reply_markup=get_quiz_keyboard()):
\* one more open prompt showing character c.
SendPrompt(kb, c) ==
  IF c = NoChar THEN kb ELSE [kb EXCEPT ![c] = @ + 1]

\* query.edit_message_text(...) without reply_markup: the pressed message
\* loses its keyboard. m = NoChar is a message that no start_command of
\* this run has sent (the keyboard of an earlier deployment).
EditMessage(kb, m) ==
  IF m = NoChar THEN kb ELSE [kb EXCEPT ![m] = @ - 1]

\* The messages a callback query can come from, and what it can carry: an
\* open prompt carries one of the four keys of get_quiz_keyboard.
Pressable(kb) == {NoChar} \cup {c \in CharIds : kb[c] > 0}
DataOf(m) == IF m = NoChar THEN CallbackData ELSE ButtonKeys
NoPrompt == [char |-> NoChar, date |-> NULL]

\* --------------------------------------------------------------- Init
\* The database file after create_all and before the seeding; no handler
\* has run. startup_event logs a failure of init_db and goes on serving, so
\* the handlers can meet the unseeded table.
Init ==
  /\ characters = << >>
  /\ game_status = {}
  /\ today = 1
  /\ out = NoOut
  /\ prompt = NoPrompt
  /\ keyboards = [c \in CharIds |-> 0]
  /\ pc = [w \in Workers |-> "idle"]
  /\ w_today = [w \in Workers |-> NULL]
  /\ w_char = [w \in Workers |-> NoChar]
  /\ w_ret = [w \in Workers |-> NoChar]
  /\ starts = 0

\* ------------------------------------------------------------ actions

\* init_db: seeds the catalog when the table is empty.
init_dbUnguarded ==
  /\ characters' =
       characters \o
       [i \in 1..Len(INITIAL_CHARACTERS) |->
          [id |-> Len(characters) + i,
           name |-> INITIAL_CHARACTERS[i].name,
           category |-> INITIAL_CHARACTERS[i].category,
           last_proposed_date |-> NULL]]
  /\ out' = [NoOut EXCEPT !.event = "init"]
  /\ UNCHANGED <<game_status, today, prompt, keyboards, wvars>>
init_db ==
  /\ characters' =
       IF Len(characters) = 0
       THEN [i \in 1..Len(INITIAL_CHARACTERS) |->
               [id |-> i,
                name |-> INITIAL_CHARACTERS[i].name,
                category |-> INITIAL_CHARACTERS[i].category,
                last_proposed_date |-> NULL]]
       ELSE characters
  /\ out' = [NoOut EXCEPT !.event = "init"]
  /\ UNCHANGED <<game_status, today, prompt, keyboards, wvars>>

\* The calendar moves to the next day.
Tick ==
  /\ today < MaxDate
  /\ today' = today + 1
  /\ UNCHANGED <<characters, game_status, out, prompt, keyboards, wvars>>

\* start_command, with the whole of select_new_character.
start_command ==
  /\ OpenCount(keyboards) < MaxOpen
  /\ LET st == FirstStatus(game_status, today) IN
     IF st # NoRow
     THEN \* already proposed today: look the character up and return it
       LET c == CharById(characters, st.current_char_id) IN
       /\ out' = [event |-> "start", path |-> "existing", reply |-> StartReply(c),
                  char |-> c,
                  name |-> IF c # NoChar THEN Row(characters, c).name ELSE "",
                  guess |-> "", answer |-> "", shown |-> NoChar]
       /\ prompt' = IF c # NoChar THEN [char |-> c, date |-> today] ELSE prompt
       /\ keyboards' = SendPrompt(keyboards, c)
       /\ UNCHANGED <<characters, game_status, today, wvars>>
     ELSE
       LET c == LeastRecent(characters) IN
       IF c # NoChar
       THEN \* select, update, replace the status, commit
         /\ characters' = SetProposed(characters, c, today)
         /\ game_status' = RecordSelection(game_status, c, today)
         /\ out' = [event |-> "start", path |-> "selected", reply |-> StartReply(c),
                    char |-> c, name |-> Row(characters, c).name,
                    guess |-> "", answer |-> "", shown |-> NoChar]
         /\ prompt' = [char |-> c, date |-> today]
         /\ keyboards' = SendPrompt(keyboards, c)
         /\ UNCHANGED <<today, wvars>>
       ELSE \* nothing to propose
         /\ out' = [event |-> "start", path |-> "empty", reply |-> StartReply(c),
                    char |-> NoChar, name |-> "", guess |-> "", answer |-> "",
                    shown |-> NoChar]
         /\ UNCHANGED <<characters, game_status, today, prompt, keyboards, wvars>>

\* button_callback_handler, for a callback query from message m carrying
\* user_guess.
button_callback_handler ==
  \E m \in Pressable(keyboards) : \E user_guess \in DataOf(m) :
    LET st == FirstStatus(game_status, today) IN
    /\ IF st = NoRow
       THEN out' = [event |-> "button", path |-> "", reply |-> "not_started",
                    char |-> NoChar, name |-> "", guess |-> user_guess,
                    answer |-> "", shown |-> m]
       ELSE
         LET c == CharById(characters, st.current_char_id) IN
         IF c = NoChar
         THEN out' = [event |-> "button", path |-> "", reply |-> "lookup_error",
                      char |-> NoChar, name |-> "", guess |-> user_guess,
                      answer |-> "", shown |-> m]
         ELSE out' = [event |-> "button", path |-> "",
                      reply |-> Verdict(user_guess, Row(characters, c).category),
                      char |-> c, name |-> Row(characters, c).name,
                      guess |-> user_guess,
                      answer |-> Row(characters, c).category, shown |-> m]
    /\ keyboards' = EditMessage(keyboards, m)
    /\ game_status' = CloseSession(game_status)
    /\ UNCHANGED <<characters, today, prompt, wvars>>

Next ==
  \/ init_db
  \/ Tick
  \/ start_command
  \/ button_callback_handler

Spec == Init /\ [][Next]_vars

\* ------------------------------------------- workers sharing the database
\* select_new_character as a worker process runs it: one step per query, and
\* one step for the write transaction (DELETE, UPDATE and INSERT become
\* visible to the other workers together, at the commit).

\* today = date.today()
WStart(w) ==
  /\ pc[w] \in {"idle", "done"}
  /\ starts < MaxStarts
  /\ starts' = starts + 1
  /\ w_today' = [w_today EXCEPT ![w] = today]
  /\ w_char' = [w_char EXCEPT ![w] = NoChar]
  /\ w_ret' = [w_ret EXCEPT ![w] = NoChar]
  /\ pc' = [pc EXCEPT ![w] = "check"]
  /\ UNCHANGED <<characters, game_status, today, out, prompt, keyboards>>

\* current_status = ...filter(game_date == today).first(); when there is one,
\* the character is looked up and returned.
WCheck(w) ==
  /\ pc[w] = "check"
  /\ LET st == FirstStatus(game_status, w_today[w]) IN
     IF st # NoRow
     THEN /\ w_ret' = [w_ret EXCEPT ![w] = CharById(characters, st.current_char_id)]
          /\ pc' = [pc EXCEPT ![w] = "done"]
     ELSE /\ pc' = [pc EXCEPT ![w] = "pick"]
          /\ UNCHANGED w_ret
  /\ UNCHANGED <<characters, game_status, today, out, prompt, keyboards, w_today, w_char, starts>>

\* char_to_propose = ...order_by(last_proposed_date.asc()).first()
WPick(w) ==
  /\ pc[w] = "pick"
  /\ w_char' = [w_char EXCEPT ![w] = LeastRecent(characters)]
  /\ pc' = [pc EXCEPT ![w] = "commit"]
  /\ UNCHANGED <<characters, game_status, today, out, prompt, keyboards, w_today, w_ret, starts>>

\* if char_to_propose: update, delete, add, commit, return it; else None.
WCommit(w) ==
  /\ pc[w] = "commit"
  /\ IF w_char[w] # NoChar
     THEN /\ characters' = SetProposed(characters, w_char[w], w_today[w])
          /\ game_status' = RecordSelection(game_status, w_char[w], w_today[w])
     ELSE UNCHANGED <<characters, game_status>>
  /\ w_ret' = [w_ret EXCEPT ![w] = w_char[w]]
  /\ pc' = [pc EXCEPT ![w] = "done"]
  /\ UNCHANGED <<today, out, prompt, keyboards, w_today, w_char, starts>>

NextConc ==
  \/ init_db
  \/ Tick
  \/ \E w \in Workers : WStart(w)
  \/ \E w \in Workers : WCheck(w)
  \/ \E w \in Workers : WPick(w)
  \/ \E w \in Workers : WCommit(w)

SpecConc == Init /\ [][NextConc]_vars

\* ================================================================ claims

\* The table has a status row for date d.
HasStatusFor(d) == \E r \in game_status : r.game_date = d

\* start_command runs with a seeded catalog and no status row for today.
SelectingStart ==
  /\ out'.event = "start"
  /\ Len(characters) > 0
  /\ ~HasStatusFor(today)
  /\ start_command

\* C1: a /start on a date for which a /start has already sent its prompt
\* returns the character of that prompt, and changes no last_proposed_date
\* and no game_status row.
C1_BeginIdempotentWithinDate ==
  [][(out'.event = "start" /\ prompt.date = today /\ start_command)
       => /\ out'.char = prompt.char
          /\ characters' = characters
          /\ game_status' = game_status]_vars

\* C1 witness: a /start found today's status and returned its character.
C1_Witness ==
  /\ out.event = "start"
  /\ out.path = "existing"
  /\ out.char = prompt.char
  /\ prompt.date = today

\* C2: all /start events handled for one date return the same character, and
\* only that character carries the date: two workers never return or persist
\* different characters for the same day.
C2_ConcurrentBeginsAgree ==
  \A p, q \in Workers :
    (/\ pc[p] = "done" /\ pc[q] = "done"
     /\ w_today[p] = w_today[q]
     /\ w_ret[p] # NoChar /\ w_ret[q] # NoChar)
    => /\ w_ret[p] = w_ret[q]
       /\ Cardinality({i \in 1..Len(characters) :
                         characters[i].last_proposed_date = w_today[p]}) = 1

\* C3: a selecting /start picks a character whose last_proposed_date is
\* minimal, NULL counting as smaller than every date: while some character
\* was never proposed, the one picked was never proposed.
C3_NeverProposedFirst ==
  [][SelectingStart
       => /\ out'.char # NoChar
          /\ LET picked == Row(characters, out'.char).last_proposed_date IN
             \A i \in 1..Len(characters) :
               /\ characters[i].last_proposed_date = NULL => picked = NULL
               /\ (picked # NULL /\ characters[i].last_proposed_date # NULL)
                    => picked <= characters[i].last_proposed_date]_vars

\* C3 witness: a never-proposed character was picked while another character
\* had already been proposed.
C3_Witness ==
  /\ out.event = "start"
  /\ out.path = "selected"
  /\ \E i \in 1..Len(characters) :
       /\ characters[i].last_proposed_date # NULL
       /\ characters[i].last_proposed_date < today
  /\ \E i \in 1..Len(characters) : characters[i].last_proposed_date = NULL

C5_OneStatusPerDate ==
  \A r1, r2 \in game_status : r1.game_date = r2.game_date => r1 = r2

\* C5 witness: two workers have both committed a selection for the same date.
C5_Witness ==
  /\ \A w \in Workers : pc[w] = "done" /\ w_char[w] # NoChar
  /\ \A p, q \in Workers : w_today[p] = w_today[q]
  /\ game_status # {}

\* C6: when a /start records a selection, the table afterwards holds exactly
\* one row, the one for today: the row of the earlier day is gone.
C6_OldStatusReplaced ==
  [][(game_status' # game_status /\ start_command)
       => /\ Cardinality(game_status') = 1
          /\ \A r \in game_status' : r.game_date = today]_vars

\* C6 witness: a selection was recorded on a day after an earlier day's
\* selection, and only today's row is in the table.
C6_Witness ==
  /\ out.event = "start"
  /\ out.path = "selected"
  /\ \E i \in 1..Len(characters) :
       /\ characters[i].last_proposed_date # NULL
       /\ characters[i].last_proposed_date < today
  /\ \A r \in game_status : r.game_date = today
  /\ Cardinality(game_status) = 1

\* C7: a selecting /start returns a character; afterwards that character's
\* last_proposed_date is today, a status row for today names it, and every
\* other character is as it was.
C7_SelectionRecorded ==
  [][SelectingStart
       => /\ out'.char # NoChar
          /\ out'.reply = "prompt"
          /\ Len(characters') = Len(characters)
          /\ Row(characters', out'.char).last_proposed_date = today
          /\ \E r \in game_status' :
               r.game_date = today /\ r.current_char_id = out'.char
          /\ \A i \in 1..Len(characters) :
               IF characters[i].id = out'.char
               THEN characters'[i] = [characters[i] EXCEPT !.last_proposed_date = today]
               ELSE characters'[i] = characters[i]]_vars

\* C7 witness: a /start selected a character and recorded it for today.
C7_Witness ==
  /\ out.event = "start"
  /\ out.path = "selected"
  /\ Row(characters, out.char).last_proposed_date = today
  /\ \E r \in game_status : r.game_date = today /\ r.current_char_id = out.char

\* The canonical category of a key: trimmed, case-folded, legacy spellings
\* mapped to the enumeration; a key outside it stays itself.
Canon(k) ==
  CASE k \in {"GENIUS", "genius", " GENIUS ", "GENIO"} -> "GENIUS"
    [] k \in {"MASON", "mason", "MASSONE"} -> "MASON"
    [] k \in {"BOTH", "ENTRAMBI"} -> "BOTH"
    [] k \in {"COMMON", "COMUNE", "PERSONA COMUNE"} -> "COMMON"
    [] OTHER -> k

\* C8: a verdict is 'correct' exactly when the guess and the stored category
\* have the same canonical category.
C8_CorrectIffCanonEqual ==
  (out.event = "button" /\ out.reply \in {"correct", "wrong"})
    => (out.reply = "correct" <=> Canon(out.guess) = Canon(out.answer))

\* C9: a /start on an empty catalog answers 'no character available' and
\* leaves both tables as they were.
C9_EmptyCatalogBegin ==
  [][(out'.event = "start" /\ Len(characters) = 0 /\ start_command)
       => /\ out'.reply = "no_character"
          /\ out'.char = NoChar
          /\ characters' = characters
          /\ game_status' = game_status]_vars

\* C9 witness: a /start ran on the empty catalog.
C9_Witness ==
  /\ out.event = "start"
  /\ out.path = "empty"
  /\ Len(characters) = 0
  /\ game_status = {}

\* C10: a button press on a date for which no /start has sent a prompt gets
\* 'not started' and no verdict, and changes neither table.
C10_AnswerWithoutBegin ==
  [][(out'.event = "button" /\ prompt.date # today /\ button_callback_handler)
       => /\ out'.reply = "not_started"
          /\ characters' = characters
          /\ game_status' = game_status]_vars

\* C10 witness: a button press got 'not started' on a day after the day of
\* the last prompt.
C10_Witness ==
  /\ out.event = "button"
  /\ out.reply = "not_started"
  /\ prompt.date # NULL
  /\ prompt.date < today

\* C11: when the guess or the stored category is outside the enumeration
\* GENIUS, MASON, BOTH, COMMON (after normalization), the handler's verdict is
\* flagged as unresolved: never a plain 'correct' or 'wrong'.
C11_UnknownCategoryUnresolved ==
  (/\ out.event = "button"
   /\ out.char # NoChar
   /\ (Canon(out.guess) \notin ButtonKeys \/ Canon(out.answer) \notin ButtonKeys))
    => out.reply = "unresolved"

\* C12: a pending challenge is consumed exactly once: when the last event was
\* a button press that got a verdict, a further button press on an open
\* prompt, with no /start in between, gets 'not started' and no verdict.
C12_ChallengeConsumedOnce ==
  [][(/\ out.event = "button"
      /\ out.reply \in {"correct", "wrong"}
      /\ out.shown # NoChar
      /\ out'.event = "button"
      /\ out'.shown # NoChar
      /\ button_callback_handler)
       => out'.reply = "not_started"]_vars

\* C13: once the catalog is seeded, no step adds or removes a character or
\* changes a character's id, name or category; only last_proposed_date
\* changes, and init_db on the seeded table adds nothing.
C13_CatalogImmutable ==
  [][Len(characters) > 0
       => /\ Len(characters') = Len(characters)
          /\ \A i \in 1..Len(characters) :
               /\ characters'[i].id = characters[i].id
               /\ characters'[i].name = characters[i].name
               /\ characters'[i].category = characters[i].category]_vars

\* C13 witness: init_db has run on a table whose characters had already been
\* proposed, and the table still holds the seed and nothing else.
C13_Witness ==
  /\ out.event = "init"
  /\ Len(characters) = Len(INITIAL_CHARACTERS)
  /\ \E i \in 1..Len(characters) : characters[i].last_proposed_date # NULL
  /\ \A i \in 1..Len(characters) :
       /\ characters[i].id = i
       /\ characters[i].name = INITIAL_CHARACTERS[i].name
       /\ characters[i].category = INITIAL_CHARACTERS[i].category

\* C14: a verdict is about the character shown in the prompt whose button
\* was pressed.
C14_VerdictAboutShownCharacter ==
  (/\ out.event = "button"
   /\ out.reply \in {"correct", "wrong"}
   /\ out.shown # NoChar)
    => out.char = out.shown

\* C15: round-robin rotation. A selecting /start picks a character that was
\* proposed before only when every other character has been proposed since
\* then; and no two characters carry the same date. So the selections of any
\* N consecutive selection dates are N distinct characters.
C15_RoundRobin ==
  [][SelectingStart
       => /\ out'.char # NoChar
          /\ LET before == Row(characters, out'.char).last_proposed_date IN
             before # NULL
               => \A i \in 1..Len(characters) :
                    characters[i].id # out'.char
                      => /\ characters[i].last_proposed_date # NULL
                         /\ characters[i].last_proposed_date > before
                         /\ characters[i].last_proposed_date < today
          /\ \A i, j \in 1..Len(characters') :
               (i # j /\ characters'[i].last_proposed_date # NULL)
                 => characters'[i].last_proposed_date
                      # characters'[j].last_proposed_date]_vars

\* C15 witness: the rotation has wrapped around: every character has been
\* proposed, and the one just selected is proposed for the second time (its
\* date is later than that of a character inserted after it).
C15_Witness ==
  /\ out.event = "start"
  /\ out.path = "selected"
  /\ \A i \in 1..Len(characters) : characters[i].last_proposed_date # NULL
  /\ \E i \in 1..Len(characters) :
       /\ characters[i].id > out.char
       /\ characters[i].last_proposed_date
            < Row(characters, out.char).last_proposed_date

\* C16: every game_status row names an existing character whose
\* last_proposed_date is the row's game_date; so neither handler ever takes
\* its 'character lookup failed' branch.
C16_StatusRefersToCharacter ==
  /\ \A r \in game_status :
       \E i \in 1..Len(characters) :
         /\ characters[i].id = r.current_char_id
         /\ characters[i].last_proposed_date = r.game_date
  /\ out.reply # "lookup_error"
  /\ ~(out.event = "start" /\ out.path = "existing" /\ out.char = NoChar)

\* C16 witness: both handlers have looked up the character of today's row:
\* a button press got a verdict on the character of the last prompt.
C16_Witness ==
  /\ game_status # {}
  /\ out.event = "button"
  /\ out.reply \in {"correct", "wrong"}
  /\ out.char = prompt.char
  /\ \E r \in game_status : r.current_char_id = out.char /\ r.game_date = today

\* C17: a button press changes no last_proposed_date (no character row at
\* all) and no game_status row, whatever the guess and the reply.  Stated
\* by contraposition: a step that changes either table is not a step of
\* button_callback_handler.
C17_AnswerWritesNothing ==
  [][(characters' # characters \/ game_status' # game_status)
       => ~button_callback_handler]_vars

\* C17 witness: a button press got the verdict 'correct' while today's row
\* and the date of its character are in the tables.
C17_Witness ==
  /\ out.event = "button"
  /\ out.reply = "correct"
  /\ \E r \in game_status :
       /\ r.game_date = today
       /\ Row(characters, r.current_char_id).last_proposed_date = today

====
